---- MODULE Spec2Model ----
\* Model of the browser test-automation framework:
\*   DriverManager (src/driver_manager.py)  - lazily created, explicitly quit driver
\*   retry_on_exception (src/base_page.py)  - retry decorator around page actions
\*   ConfigManager (src/config_manager.py)  - singleton configuration with cached accessors
\*   waits and queries (src/base_page.py, src/element_utils.py, src/homepage_python.py)
EXTENDS Integers, Sequences, FiniteSets, TLC

\* ---------------------------------------------------------------------------
\* Bounds of the model
\* ---------------------------------------------------------------------------
\* webdriver constructor invocations explored (successful or failing)
MaxCtorCalls == 2
\* failing WebDriver.quit() calls explored
MaxQuitFails == 1
\* largest max_retries explored for a generic decorated function
MaxRetries == 3
\* threads that construct ConfigManager, or call get_driver, concurrently
NThreads == 2
\* ticks of the clock in one poll interval of a wait
PollTicks == 2
\* most ticks one evaluation of a wait's condition takes
MaxEvalTicks == 1
\* largest timeout argument of a wait, in seconds
MaxWaitSeconds == 2

\* ---------------------------------------------------------------------------
\* Program constants
\* ---------------------------------------------------------------------------
CHROME_BROWSER == <<"c", "h", "r", "o", "m", "e">>
FIREFOX_BROWSER == <<"f", "i", "r", "e", "f", "o", "x">>
EDGE_BROWSER == <<"e", "d", "g", "e">>
SAFARI_BROWSER == <<"s", "a", "f", "a", "r", "i">>

\* max_retries of the decorated page actions
ClickMaxRetries == 3
EnterTextMaxRetries == 2

\* Python's None for the _driver slot; handles are 1, 2, ...
None == 0

VARIABLES
    driver,      \* DriverManager._driver: None or the stored handle
    created,     \* created[h]: the options handle h was constructed with
    released,    \* handles whose quit() completed
    quitCalls,   \* quitCalls[h]: number of quit() invocations on handle h
    ctorCalls,   \* number of webdriver constructor invocations
    quitFails,   \* number of quit() invocations that raised
    returned,    \* handles get_driver has returned so far
    lastGot,     \* handle of the latest get_driver return with no quit_driver call since
    quitSince,   \* a quit_driver call returned and no get_driver has returned since
    last,        \* the latest DriverManager call and its outcome
    rPc,         \* retry wrapper: "idle", "running", "returned", "raised"
    rFunc,       \* the decorated function of the current call
    rMax,        \* its max_retries
    rExc,        \* its exceptions tuple (a set of exception classes)
    attempt,     \* the wrapper's loop variable
    rTrace,      \* what the call did so far: invocations, log records, sleeps
    rRaised,     \* the exception delivered to the caller, once raised
    file,        \* the configuration file on disk
    cfInstance,  \* ConfigManager._instance: None or the stored object
    cfObjs,      \* cfObjs[i]: the ConfigManager object i, its parser and whether a load completed
    cfInitLoads, \* number of _load_config calls made by _initialize
    cfReturned,  \* the objects ConfigManager() has returned so far
    cache,       \* cache[a]: the lru_cache entry of accessor a
    okSince,     \* okSince[a]: a call of a returned since reload_config last returned
    lastFailed,  \* lastFailed[a]: the latest call of a raised
    cfLast,      \* the latest ConfigManager call and its outcome
    tPc,         \* tPc[t]: where thread t is in __new__
    tTarget,     \* tTarget[t]: the object thread t is initializing
    tRet,        \* tRet[t]: what __new__ returned to thread t
    dPc,         \* dPc[t]: where thread t is in get_driver
    dTmp,        \* dTmp[t]: the handle thread t constructed and has not stored yet
    dRet,        \* dRet[t]: what get_driver returned to thread t
    cfgBrowser,  \* the [BROWSER] browser option of the loaded configuration
    wPc,         \* the wait: "idle", "eval", "sleep", "returned", "timeout"
    wOp,         \* the wait operation called
    wTimeout,    \* its timeout, in ticks
    wNow,        \* ticks elapsed since the wait started
    wLeft,       \* ticks left before the wait looks at the clock again
    wCond,       \* whether the located element is there (visible, clickable, present)
    wSince,      \* the elapsed time since which wCond has had its value
    wEvals,      \* evaluations of the condition made by the wait
    wSeenAt,     \* the elapsed time of the evaluation that satisfied the wait, or -1
    wOut,        \* how the operation ended
    qPage,       \* the page in the browser
    qLast        \* the latest query call and its outcome

driverVars == <<driver, created, released, quitCalls, ctorCalls, quitFails,
                returned, lastGot, quitSince, last>>
retryVars == <<rPc, rFunc, rMax, rExc, attempt, rTrace, rRaised>>
threadVars == <<tPc, tTarget, tRet>>
configVars == <<file, cfInstance, cfObjs, cfInitLoads, cfReturned, cache, okSince,
                lastFailed, cfLast, tPc, tTarget, tRet>>
raceVars == <<dPc, dTmp, dRet>>
waitVars == <<wPc, wOp, wTimeout, wNow, wLeft, wCond, wSince, wEvals, wSeenAt, wOut>>
queryVars == <<qPage, qLast>>
pageVars == <<dPc, dTmp, dRet, cfgBrowser,
              wPc, wOp, wTimeout, wNow, wLeft, wCond, wSince, wEvals, wSeenAt, wOut,
              qPage, qLast>>
vars == <<driver, created, released, quitCalls, ctorCalls, quitFails,
          returned, lastGot, quitSince, last,
          rPc, rFunc, rMax, rExc, attempt, rTrace, rRaised,
          file, cfInstance, cfObjs, cfInitLoads, cfReturned, cache, okSince,
          lastFailed, cfLast, tPc, tTarget, tRet,
          dPc, dTmp, dRet, cfgBrowser,
          wPc, wOp, wTimeout, wNow, wLeft, wCond, wSince, wEvals, wSeenAt, wOut,
          qPage, qLast>>

Threads == 1..NThreads

\* ---------------------------------------------------------------------------
\* DriverManager
\* ---------------------------------------------------------------------------
\* str.lower() on the letters the browser names use
LowerChar(c) ==
    CASE c = "C" -> "c" [] c = "H" -> "h" [] c = "R" -> "r" [] c = "O" -> "o"
      [] c = "M" -> "m" [] c = "E" -> "e" [] c = "F" -> "f" [] c = "I" -> "i"
      [] c = "X" -> "x" [] c = "D" -> "d" [] c = "G" -> "g" [] c = "S" -> "s"
      [] c = "A" -> "a" [] c = "P" -> "p"
      [] OTHER -> c

Lower(s) == [i \in 1..Len(s) |-> LowerChar(s[i])]

\* browser_name arguments explored
BrowserNames ==
    { <<"c", "h", "r", "o", "m", "e">>,
      <<"C", "h", "r", "o", "m", "e">>,
      <<"f", "i", "r", "e", "f", "o", "x">>,
      <<"F", "I", "R", "E", "F", "O", "X">>,
      <<"e", "d", "g", "e">>,
      <<"E", "d", "g", "e">>,
      <<"s", "a", "f", "a", "r", "i">>,
      <<"O", "p", "e", "r", "a">>,
      << >> }

\* A _create_driver whose chain also takes the SAFARI_BROWSER constant.
CreateDriverAcceptsSafari(browser_name) ==
    LET name == Lower(browser_name) IN
    IF name = CHROME_BROWSER
    THEN [ok |-> TRUE, factory |-> "_create_chrome_driver"]
    ELSE IF name = FIREFOX_BROWSER
    THEN [ok |-> TRUE, factory |-> "_create_firefox_driver"]
    ELSE IF name = EDGE_BROWSER
    THEN [ok |-> TRUE, factory |-> "_create_edge_driver"]
    ELSE IF name = SAFARI_BROWSER
    THEN [ok |-> TRUE, factory |-> "_create_chrome_driver"]
    ELSE [ok |-> FALSE, error |-> "ValueError",
          text |-> "Unsupported browser: ", arg |-> name]

\* The if/elif chain of _create_driver: the factory chosen for a browser name,
\* or the ValueError it raises.
CreateDriver(browser_name) ==
    LET name == Lower(browser_name) IN
    IF name = CHROME_BROWSER
    THEN [ok |-> TRUE, factory |-> "_create_chrome_driver"]
    ELSE IF name = FIREFOX_BROWSER
    THEN [ok |-> TRUE, factory |-> "_create_firefox_driver"]
    ELSE IF name = EDGE_BROWSER
    THEN [ok |-> TRUE, factory |-> "_create_edge_driver"]
    ELSE [ok |-> FALSE, error |-> "ValueError",
          text |-> "Unsupported browser: ", arg |-> name]

NoCall == [op |-> "none"]

InitDriver ==
    /\ driver = None
    /\ created = << >>
    /\ released = {}
    /\ quitCalls = << >>
    /\ ctorCalls = 0
    /\ quitFails = 0
    /\ returned = {}
    /\ lastGot = None
    /\ quitSince = FALSE
    /\ last = NoCall

\* get_driver when _driver is set: the stored handle is returned as it is.
GetDriverActive(browser_name, headless) ==
    /\ driver # None
    /\ returned' = returned \cup {driver}
    /\ lastGot' = driver
    /\ quitSince' = FALSE
    /\ last' = [op |-> "get_driver", browser |-> browser_name, headless |-> headless,
                out |-> "return", handle |-> driver, before |-> driver]
    /\ UNCHANGED <<driver, created, released, quitCalls, ctorCalls, quitFails>>

\* get_driver when _driver is None: _create_driver runs; ctorOk is whether the
\* webdriver constructor (and the timeouts set on it) completes.
GetDriverAbsent(browser_name, headless, ctorOk) ==
    /\ driver = None
    /\ LET c == CreateDriver(browser_name) IN
       IF ~c.ok
       THEN /\ last' = [op |-> "get_driver", browser |-> browser_name,
                        headless |-> headless, out |-> "raise", error |-> c.error,
                        text |-> c.text, arg |-> c.arg, before |-> None]
            /\ UNCHANGED <<driver, created, released, quitCalls, ctorCalls,
                           quitFails, returned, lastGot, quitSince>>
       ELSE /\ ctorCalls < MaxCtorCalls
            /\ ctorCalls' = ctorCalls + 1
            /\ IF ctorOk
               THEN LET h == Len(created) + 1 IN
                    /\ created' = Append(created, [factory |-> c.factory,
                                                   headless |-> headless])
                    /\ quitCalls' = Append(quitCalls, 0)
                    /\ driver' = h
                    /\ returned' = returned \cup {h}
                    /\ lastGot' = h
                    /\ quitSince' = FALSE
                    /\ last' = [op |-> "get_driver", browser |-> browser_name,
                                headless |-> headless, out |-> "return",
                                handle |-> h, before |-> None]
               ELSE /\ last' = [op |-> "get_driver", browser |-> browser_name,
                                headless |-> headless, out |-> "raise",
                                error |-> "WebDriverException",
                                text |-> "", arg |-> << >>, before |-> None]
                    /\ UNCHANGED <<driver, created, quitCalls, returned, lastGot,
                                   quitSince>>
            /\ UNCHANGED <<released, quitFails>>

\* A get_driver that constructs on every call.
GetDriverAlwaysCreates(browser_name, headless, ctorOk) ==
    LET c == CreateDriver(browser_name)
        h == Len(created) + 1 IN
    /\ c.ok /\ ctorOk
    /\ ctorCalls < MaxCtorCalls
    /\ ctorCalls' = ctorCalls + 1
    /\ created' = Append(created, [factory |-> c.factory, headless |-> headless])
    /\ quitCalls' = Append(quitCalls, 0)
    /\ driver' = h
    /\ returned' = returned \cup {h}
    /\ lastGot' = h
    /\ quitSince' = FALSE
    /\ last' = [op |-> "get_driver", browser |-> browser_name,
                headless |-> headless, out |-> "return",
                handle |-> h, before |-> driver]
    /\ UNCHANGED <<released, quitFails>>

\* A get_driver that checks the requested browser before it looks at _driver.
GetDriverValidatesFirst(browser_name, headless, ctorOk) ==
    IF CreateDriver(browser_name).ok
    THEN \/ GetDriverActive(browser_name, headless)
         \/ GetDriverAbsent(browser_name, headless, ctorOk)
    ELSE /\ last' = [op |-> "get_driver", browser |-> browser_name,
                     headless |-> headless, out |-> "raise", error |-> "ValueError",
                     text |-> "Unsupported browser: ", arg |-> Lower(browser_name),
                     before |-> driver]
         /\ UNCHANGED <<driver, created, released, quitCalls, ctorCalls,
                        quitFails, returned, lastGot, quitSince>>

get_driver(browser_name, headless, ctorOk) ==
    \/ GetDriverActive(browser_name, headless)
    \/ GetDriverAbsent(browser_name, headless, ctorOk)

\* A quit_driver that releases the handle but keeps it stored.
QuitDriverKeepsHandle(quitOk) ==
    /\ driver # None
    /\ quitOk
    /\ quitCalls' = [quitCalls EXCEPT ![driver] = @ + 1]
    /\ released' = released \cup {driver}
    /\ quitSince' = TRUE
    /\ lastGot' = None
    /\ last' = [op |-> "quit_driver", out |-> "return", before |-> driver,
                quitCallsBefore |-> quitCalls]
    /\ UNCHANGED <<driver, created, ctorCalls, quitFails, returned>>

\* A quit_driver without the `if DriverManager._driver` test.
QuitDriverUnguarded(quitOk) ==
    /\ lastGot' = None
    /\ IF driver # None
       THEN /\ quitOk
            /\ quitCalls' = [quitCalls EXCEPT ![driver] = @ + 1]
            /\ released' = released \cup {driver}
            /\ driver' = None
            /\ quitSince' = TRUE
            /\ last' = [op |-> "quit_driver", out |-> "return",
                        before |-> driver, quitCallsBefore |-> quitCalls]
       ELSE /\ last' = [op |-> "quit_driver", out |-> "raise", before |-> None,
                        quitCallsBefore |-> quitCalls]
            /\ UNCHANGED <<driver, released, quitCalls, quitSince>>
    /\ UNCHANGED <<created, ctorCalls, quitFails, returned>>

\* quit_driver; quitOk is whether the handle's own quit() completes.
quit_driver(quitOk) ==
    /\ lastGot' = None
    /\ IF driver # None
       THEN /\ quitCalls' = [quitCalls EXCEPT ![driver] = @ + 1]
            /\ IF quitOk
               THEN /\ released' = released \cup {driver}
                    /\ driver' = None
                    /\ quitSince' = TRUE
                    /\ last' = [op |-> "quit_driver", out |-> "return",
                                before |-> driver, quitCallsBefore |-> quitCalls]
                    /\ UNCHANGED quitFails
               ELSE /\ quitFails < MaxQuitFails
                    /\ quitFails' = quitFails + 1
                    /\ last' = [op |-> "quit_driver", out |-> "raise",
                                before |-> driver, quitCallsBefore |-> quitCalls]
                    /\ UNCHANGED <<driver, released, quitSince>>
       ELSE /\ quitOk
            /\ quitSince' = TRUE
            /\ last' = [op |-> "quit_driver", out |-> "return", before |-> None,
                        quitCallsBefore |-> quitCalls]
            /\ UNCHANGED <<driver, released, quitCalls, quitFails>>
    /\ UNCHANGED <<created, ctorCalls, returned>>

GetDriver ==
    \E b \in BrowserNames, hl \in BOOLEAN, ctorOk \in BOOLEAN :
        get_driver(b, hl, ctorOk) /\ UNCHANGED <<retryVars, configVars, pageVars>>

QuitDriver ==
    \E quitOk \in BOOLEAN : quit_driver(quitOk) /\ UNCHANGED <<retryVars, configVars, pageVars>>

\* ---------------------------------------------------------------------------
\* retry_on_exception
\* ---------------------------------------------------------------------------
ExcKinds == {"StaleElementReferenceException", "TimeoutException",
             "NoSuchElementException", "WebDriverException", "Exception"}

\* The base class of each exception class (selenium.common.exceptions).
Base(k) ==
    CASE k = "StaleElementReferenceException" -> "WebDriverException"
      [] k = "TimeoutException" -> "WebDriverException"
      [] k = "NoSuchElementException" -> "WebDriverException"
      [] k = "WebDriverException" -> "Exception"
      [] OTHER -> "BaseException"

RECURSIVE IsInstance(_, _)
IsInstance(k, cls) ==
    IF k = cls THEN TRUE
    ELSE IF k = "BaseException" THEN FALSE
    ELSE IsInstance(Base(k), cls)

\* An except clause that matches every exception.
CaughtAlways(k, excs) == TRUE

\* `except exceptions as e`: e is an instance of a class of the tuple.
Caught(k, excs) == \E cls \in excs : IsInstance(k, cls)

\* The default of the decorator's `exceptions` parameter.
DefaultExceptions == {"StaleElementReferenceException"}

\* `exceptions` tuples explored for a generic decorated function.
ExcTuples == { DefaultExceptions,
               {"StaleElementReferenceException", "NoSuchElementException"},
               {"WebDriverException"} }

\* The decorated functions: their max_retries and exceptions.
Decorated ==
    { [func |-> "click_element", max_retries |-> ClickMaxRetries,
       exceptions |-> DefaultExceptions],
      [func |-> "enter_text", max_retries |-> EnterTextMaxRetries,
       exceptions |-> DefaultExceptions] }
    \cup
    { [func |-> "func", max_retries |-> n, exceptions |-> e] :
        n \in 0..MaxRetries, e \in ExcTuples }

\* What one invocation of the decorated function does, given what the driver
\* does under it ("ok" or the exception class it raises). click_element and
\* enter_text catch the wait's TimeoutException and raise a TimeoutException
\* with their own message; everything else passes through.
FuncBody(func, raw, pos) ==
    IF raw = "ok"
    THEN [ok |-> TRUE]
    ELSE IF func \in {"click_element", "enter_text"} /\ IsInstance(raw, "TimeoutException")
    THEN [ok |-> FALSE,
          exc |-> [kind |-> "TimeoutException", obj |-> pos,
                   msg |-> IF func = "click_element" THEN "Element not clickable"
                           ELSE "Element not visible"]]
    ELSE [ok |-> FALSE, exc |-> [kind |-> raw, obj |-> pos, msg |-> "driver"]]

NoExc == [kind |-> "none"]

InitRetry ==
    /\ rPc = "idle"
    /\ rFunc = "none"
    /\ rMax = 0
    /\ rExc = {}
    /\ attempt = 0
    /\ rTrace = << >>
    /\ rRaised = NoExc

\* The caller invokes a decorated function: the wrapper starts its loop.
RetryCall ==
    /\ rPc # "running"
    /\ \E d \in Decorated :
        /\ rFunc' = d.func
        /\ rMax' = d.max_retries
        /\ rExc' = d.exceptions
    /\ rPc' = "running"
    /\ attempt' = 0
    /\ rTrace' = << >>
    /\ rRaised' = NoExc
    /\ UNCHANGED <<driverVars, configVars, pageVars>>

\* An except branch that tags the failure with the attempts made.
OnLastFailureTagged(e, called) ==
    /\ rTrace' = called \o <<[ev |-> "error", n |-> rMax, exc |-> e]>>
    /\ rRaised' = [kind |-> e.kind, obj |-> e.obj, msg |-> e.msg, attempts |-> attempt + 1]
    /\ rPc' = "raised"
    /\ UNCHANGED attempt

\* An except branch that sleeps before it raises.
OnLastFailureSleeps(e, called) ==
    /\ rTrace' = called \o <<[ev |-> "error", n |-> rMax, exc |-> e], [ev |-> "sleep"]>>
    /\ rRaised' = e
    /\ rPc' = "raised"
    /\ UNCHANGED attempt

\* The except branch of the wrapper when the budget is spent: error record, raise.
OnLastFailure(e, called) ==
    /\ rTrace' = called \o <<[ev |-> "error", n |-> rMax, exc |-> e]>>
    /\ rRaised' = e
    /\ rPc' = "raised"
    /\ UNCHANGED attempt

\* An except branch that reports the retry at error level.
OnRetryLogsError(e, called) ==
    /\ rTrace' = called \o <<[ev |-> "error", n |-> attempt + 1, exc |-> e],
                             [ev |-> "sleep"]>>
    /\ attempt' = attempt + 1
    /\ UNCHANGED <<rPc, rRaised>>

\* An except branch that waits twice before the next iteration.
OnRetrySleepsTwice(e, called) ==
    /\ rTrace' = called \o <<[ev |-> "warning", n |-> attempt + 1, exc |-> e],
                             [ev |-> "sleep"], [ev |-> "sleep"]>>
    /\ attempt' = attempt + 1
    /\ UNCHANGED <<rPc, rRaised>>

\* The except branch of the wrapper before the budget is spent: warning record,
\* time.sleep(1), next iteration.
OnRetry(e, called) ==
    /\ rTrace' = called \o <<[ev |-> "warning", n |-> attempt + 1, exc |-> e],
                             [ev |-> "sleep"]>>
    /\ attempt' = attempt + 1
    /\ UNCHANGED <<rPc, rRaised>>

\* A loop with one iteration too few: range(max_retries).
LastAttemptOffByOne == attempt + 1 >= rMax

\* `attempt == max_retries`
LastAttempt == attempt = rMax

\* One iteration of `for attempt in range(max_retries + 1)`.
RetryAttempt(raw) ==
    /\ rPc = "running"
    /\ attempt <= rMax
    /\ LET r == FuncBody(rFunc, raw, Len(rTrace) + 1)
           called == Append(rTrace, [ev |-> "call",
                                    out |-> IF r.ok THEN "ok" ELSE r.exc.kind])
       IN IF r.ok
          THEN /\ rPc' = "returned"
               /\ rTrace' = called
               /\ UNCHANGED <<attempt, rRaised>>
          ELSE IF Caught(r.exc.kind, rExc)
          THEN IF LastAttempt
               THEN OnLastFailure(r.exc, called)
               ELSE OnRetry(r.exc, called)
          ELSE /\ rPc' = "raised"
               /\ rRaised' = r.exc
               /\ rTrace' = called
               /\ UNCHANGED attempt
    /\ UNCHANGED <<rFunc, rMax, rExc>>
    /\ UNCHANGED <<driverVars, configVars, pageVars>>

RetryStep == \E raw \in {"ok"} \cup ExcKinds : RetryAttempt(raw)

\* ---------------------------------------------------------------------------
\* ConfigManager: the configuration file and configparser
\* ---------------------------------------------------------------------------
\* FrameworkConstants.CONFIG_FILE_PATH
CONFIG_FILE_PATH == "config/config.ini"

\* No value under an option.
Absent == <<"<absent>">>

\* Option values the configuration file may hold (none contains a '%':
\* configparser's interpolation leaves such values as they are).
V_HTTP == <<"h", "t", "t", "p", ":", "/", "/", "a">>
V_FTP == <<"f", "t", "p", ":", "/", "/", "a">>
V_10 == <<"1", "0">>
V_0 == <<"0">>
V_ABC == <<"a", "b", "c">>

K_BASE_URL == [section |-> "URLS", key |-> "base_url"]
K_TIMEOUT == [section |-> "TIMEOUTS", key |-> "explicit_wait_timeout"]
K_LOGIN_URL == [section |-> "URLS", key |-> "login_url"]
K_EMAIL == [section |-> "CREDENTIALS", key |-> "test_email"]

\* The options a file of the model may set, and the values each may take.
StoredKeys == {K_BASE_URL, K_TIMEOUT}

ValuesOf(k) ==
    IF k = K_BASE_URL THEN {Absent, V_HTTP, V_FTP}
    ELSE {Absent, V_10, V_0, V_ABC}

\* The options callers ask for: the stored ones, one never set in a section
\* that may exist, one in a section no file has.
AskedKeys == StoredKeys \cup {K_LOGIN_URL, K_EMAIL}

Contents == {c \in [StoredKeys -> {Absent, V_HTTP, V_FTP, V_10, V_0, V_ABC}] :
                \A k \in StoredKeys : c[k] \in ValuesOf(k)}

EmptyContent == [k \in StoredKeys |-> Absent]

\* The file at CONFIG_FILE_PATH: absent, or its options and what is wrong with
\* its text: "no" (well-formed), "header" (text before the first section
\* header: MissingSectionHeaderError before anything is stored, so what follows
\* it is left out), "line" (an unparseable line: ParsingError raised after every
\* other line is stored).
NoFile == [exists |-> FALSE]

Files == {NoFile} \cup
         {[exists |-> TRUE, content |-> c, bad |-> b] :
             c \in Contents, b \in {"no", "line"}} \cup
         {[exists |-> TRUE, content |-> EmptyContent, bad |-> "header"]}

StandardFile ==
    [exists |-> TRUE, bad |-> "no",
     content |-> [k \in StoredKeys |-> IF k = K_BASE_URL THEN V_HTTP ELSE V_10]]

\* ConfigParser.read(path) on a parser holding `cfg`: the options of the file
\* are added to those already held, a value in the file replacing the held one;
\* nothing is removed.
ReadInto(cfg, f) ==
    IF f.bad = "header"
    THEN [ok |-> FALSE, cfg |-> cfg]
    ELSE [ok |-> f.bad = "no",
          cfg |-> [k \in StoredKeys |->
                      IF f.content[k] # Absent THEN f.content[k] ELSE cfg[k]]]

\* A _load_config without the os.path.exists test: configparser skips a file
\* it cannot open.
LoadConfigNoExistsCheck(cfg, f) ==
    IF ~f.exists
    THEN [ok |-> TRUE, cfg |-> cfg]
    ELSE LET r == ReadInto(cfg, f) IN
         IF r.ok
         THEN [ok |-> TRUE, cfg |-> r.cfg]
         ELSE [ok |-> FALSE, error |-> "Exception",
               msg |-> <<"Failed to load configuration: ", f.bad>>, cfg |-> r.cfg]

\* _load_config on a parser holding `cfg`: the outcome and what the parser
\* holds afterwards.
LoadConfig(cfg, f) ==
    IF ~f.exists
    THEN [ok |-> FALSE, error |-> "FileNotFoundError",
          msg |-> <<"Configuration file not found: ", CONFIG_FILE_PATH>>,
          cfg |-> cfg]
    ELSE LET r == ReadInto(cfg, f) IN
         IF r.ok
         THEN [ok |-> TRUE, cfg |-> r.cfg]
         ELSE [ok |-> FALSE, error |-> "Exception",
               msg |-> <<"Failed to load configuration: ", f.bad>>, cfg |-> r.cfg]

\* The sections a parser holds: those with an option.
SectionsOf(cfg) == {k.section : k \in {s \in StoredKeys : cfg[s] # Absent}}

\* ConfigParser.get(section, key): the stored string, NoSectionError or
\* NoOptionError.
ConfigGet(cfg, section, key) ==
    IF section \notin SectionsOf(cfg)
    THEN [ok |-> FALSE, error |-> "NoSectionError"]
    ELSE LET k == [section |-> section, key |-> key] IN
         IF k \in StoredKeys /\ cfg[k] # Absent
         THEN [ok |-> TRUE, value |-> cfg[k]]
         ELSE [ok |-> FALSE, error |-> "NoOptionError"]

\* int() / float() / ConfigParser._convert_to_boolean on a stored string.
DigitVal(c) ==
    CASE c = "0" -> 0 [] c = "1" -> 1 [] c = "2" -> 2 [] c = "3" -> 3
      [] c = "4" -> 4 [] c = "5" -> 5 [] c = "6" -> 6 [] c = "7" -> 7
      [] c = "8" -> 8 [] c = "9" -> 9 [] OTHER -> -1

IsDigits(s) == Len(s) > 0 /\ \A i \in 1..Len(s) : DigitVal(s[i]) >= 0

RECURSIVE DigitsValue(_)
DigitsValue(s) ==
    IF Len(s) = 0 THEN 0
    ELSE 10 * DigitsValue(SubSeq(s, 1, Len(s) - 1)) + DigitVal(s[Len(s)])

ParseInt(s) ==
    IF Len(s) > 1 /\ s[1] \in {"-", "+"} /\ IsDigits(Tail(s))
    THEN [ok |-> TRUE, value |-> IF s[1] = "-" THEN 0 - DigitsValue(Tail(s))
                                 ELSE DigitsValue(Tail(s))]
    ELSE IF IsDigits(s)
    THEN [ok |-> TRUE, value |-> DigitsValue(s)]
    ELSE [ok |-> FALSE, error |-> "ValueError"]

\* A float is kept as its integral part and its decimals.
ParseFloat(s) ==
    LET dots == {i \in 1..Len(s) : s[i] = "."} IN
    IF dots = {}
    THEN LET r == ParseInt(s) IN
         IF r.ok THEN [ok |-> TRUE, value |-> [whole |-> r.value, decimals |-> << >>]]
         ELSE r
    ELSE LET d == CHOOSE i \in dots : TRUE
             w == ParseInt(SubSeq(s, 1, d - 1))
             frac == SubSeq(s, d + 1, Len(s)) IN
         IF Cardinality(dots) = 1 /\ w.ok /\ IsDigits(frac)
         THEN [ok |-> TRUE, value |-> [whole |-> w.value, decimals |-> frac]]
         ELSE [ok |-> FALSE, error |-> "ValueError"]

BOOLEAN_TRUE == { <<"1">>, <<"y", "e", "s">>, <<"t", "r", "u", "e">>, <<"o", "n">> }
BOOLEAN_FALSE == { <<"0">>, <<"n", "o">>, <<"f", "a", "l", "s", "e">>, <<"o", "f", "f">> }

ParseBoolean(s) ==
    IF Lower(s) \in BOOLEAN_TRUE THEN [ok |-> TRUE, value |-> TRUE]
    ELSE IF Lower(s) \in BOOLEAN_FALSE THEN [ok |-> TRUE, value |-> FALSE]
    ELSE [ok |-> FALSE, error |-> "ValueError"]

Coerce(type, s) ==
    CASE type = "int" -> ParseInt(s)
      [] type = "float" -> ParseFloat(s)
      [] OTHER -> ParseBoolean(s)

\* str() of a fallback argument.
DigitChar(d) ==
    CASE d = 0 -> "0" [] d = 1 -> "1" [] d = 2 -> "2" [] d = 3 -> "3"
      [] d = 4 -> "4" [] d = 5 -> "5" [] d = 6 -> "6" [] d = 7 -> "7"
      [] d = 8 -> "8" [] OTHER -> "9"

RECURSIVE NatToStr(_)
NatToStr(n) ==
    IF n < 10 THEN <<DigitChar(n)>>
    ELSE Append(NatToStr(n \div 10), DigitChar(n % 10))

Str(x) ==
    CASE x.t = "str" -> x.v
      [] x.t = "int" -> IF x.v < 0 THEN <<"-">> \o NatToStr(0 - x.v) ELSE NatToStr(x.v)
      [] x.t = "bool" -> IF x.v THEN <<"T", "r", "u", "e">> ELSE <<"F", "a", "l", "s", "e">>
      [] OTHER -> <<"N", "o", "n", "e">>

NoneValue == [t |-> "none"]

\* ---------------------------------------------------------------------------
\* ConfigManager: getters
\* ---------------------------------------------------------------------------
StrValue(s) == [t |-> "str", v |-> s]
IntValue(n) == [t |-> "int", v |-> n]

\* fallback arguments explored for get_property
PropertyFallbacks == {NoneValue, StrValue(<<"c", "h", "r", "o", "m", "e">>), IntValue(25)}

\* fallback arguments explored for get_int / get_float / get_boolean
TypedFallbacks(type) ==
    CASE type = "int" -> {IntValue(0), IntValue(5)}
      [] type = "float" -> {[t |-> "float", v |-> [whole |-> 0, decimals |-> <<"0">>]]}
      [] OTHER -> {[t |-> "bool", v |-> FALSE], [t |-> "bool", v |-> TRUE]}

Types == {"int", "float", "bool"}

\* A get_property that prefers the fallback when one is given.
GetPropertyFallbackFirst(cfg, section, key, fallback) ==
    LET r == ConfigGet(cfg, section, key) IN
    IF fallback # NoneValue
    THEN [out |-> "return", value |-> StrValue(Str(fallback)), log |-> << >>]
    ELSE IF r.ok
    THEN [out |-> "return", value |-> StrValue(r.value), log |-> << >>]
    ELSE [out |-> "raise", error |-> "KeyError",
          msg |-> <<"Property '", section, ".", key, "' not found in configuration">>,
          log |-> << >>]

\* get_property(section, key, fallback)
GetProperty(cfg, section, key, fallback) ==
    LET r == ConfigGet(cfg, section, key) IN
    IF r.ok
    THEN [out |-> "return", value |-> StrValue(r.value), log |-> << >>]
    ELSE IF fallback # NoneValue
    THEN [out |-> "return", value |-> StrValue(Str(fallback)),
          log |-> <<[level |-> "warning",
                     msg |-> <<"Using fallback value for ", section, ".", key, ": ",
                               Str(fallback)>>]>>]
    ELSE [out |-> "raise", error |-> "KeyError",
          msg |-> <<"Property '", section, ".", key, "' not found in configuration">>,
          log |-> << >>]

\* A typed getter that returns the fallback whatever is stored.
GetTypedIgnoresStored(type, cfg, section, key, fallback) ==
    [out |-> "return", value |-> fallback, log |-> << >>]

\* get_int / get_float / get_boolean: only NoSectionError and NoOptionError are
\* caught; the ValueError of a string that does not coerce is not.
GetTyped(type, cfg, section, key, fallback) ==
    LET r == ConfigGet(cfg, section, key) IN
    IF ~r.ok THEN [out |-> "return", value |-> fallback, log |-> << >>]
    ELSE LET c == Coerce(type, r.value) IN
         IF c.ok THEN [out |-> "return", value |-> [t |-> type, v |-> c.value],
                       log |-> << >>]
         ELSE [out |-> "raise", error |-> c.error, msg |-> <<"invalid literal">>,
               log |-> << >>]

\* The cache_config-wrapped accessors of the model.
Accessors == {"get_base_url", "get_explicit_wait_timeout"}

\* The validation_func of each accessor's validate_config.
Valid(acc, value) ==
    IF acc = "get_base_url"
    THEN Len(value.v) >= 4 /\ SubSeq(value.v, 1, 4) = <<"h", "t", "t", "p">>
    ELSE value.v > 0

\* The accessor's own body.
AccessorBody(acc, cfg) ==
    IF acc = "get_base_url"
    THEN GetProperty(cfg, "URLS", "base_url", NoneValue)
    ELSE GetTyped("int", cfg, "TIMEOUTS", "explicit_wait_timeout", IntValue(10))

\* validate_config's wrapper around the accessor: what a cache miss computes.
Compute(acc, cfg) ==
    LET r == AccessorBody(acc, cfg) IN
    IF r.out = "return" /\ ~Valid(acc, r.value)
    THEN [out |-> "raise", error |-> "ValueError",
          msg |-> <<"Invalid configuration value: ", r.value.v>>, log |-> r.log]
    ELSE r

NoEntry == [t |-> "no entry"]

\* A cache that stores nothing.
CacheStoreNothing(entry, r) == entry

\* A cache that also stores a failure, as the fallback "".
CacheStoreFailures(entry, r) ==
    IF r.out = "return" THEN r.value ELSE StrValue(<< >>)

\* lru_cache: the entry after a miss whose computation ended as r.
CacheStore(entry, r) == IF r.out = "return" THEN r.value ELSE entry

\* ---------------------------------------------------------------------------
\* ConfigManager: the singleton and its operations
\* ---------------------------------------------------------------------------
NoCfgCall == [op |-> "none"]

InitConfig ==
    /\ file = StandardFile
    /\ cfInstance = None
    /\ cfObjs = << >>
    /\ cfInitLoads = 0
    /\ cfReturned = {}
    /\ cache = [a \in Accessors |-> NoEntry]
    /\ okSince = [a \in Accessors |-> FALSE]
    /\ lastFailed = [a \in Accessors |-> FALSE]
    /\ cfLast = NoCfgCall
    /\ tPc = [t \in Threads |-> "idle"]
    /\ tTarget = [t \in Threads |-> None]
    /\ tRet = [t \in Threads |-> [instance |-> None, loaded |-> FALSE]]

\* The configuration file is written, replaced or deleted by its owner.
FileWrite ==
    /\ \E f \in Files : f # file /\ file' = f
    /\ UNCHANGED <<cfInstance, cfObjs, cfInitLoads, cfReturned, cache, okSince,
                   lastFailed, cfLast, threadVars>>
    /\ UNCHANGED <<driverVars, retryVars, pageVars>>

\* An object as object.__new__ leaves it: _config is the class attribute, None.
NewObject == [hasConfig |-> FALSE, config |-> EmptyContent, loaded |-> FALSE]

\* _initialize on a fresh object: a new ConfigParser, then _load_config.
Initialized(f) ==
    LET r == LoadConfig(EmptyContent, f) IN
    [obj |-> [hasConfig |-> TRUE, config |-> r.cfg, loaded |-> r.ok], load |-> r]

\* A __new__ without the `_instance is None` test.
ConfigManagerNewAlways(op) ==
    LET i == Initialized(file)
        id == Len(cfObjs) + 1 IN
    /\ Len(cfObjs) < 2
    /\ i.load.ok
    /\ cfObjs' = Append(cfObjs, i.obj)
    /\ cfInstance' = id
    /\ cfInitLoads' = cfInitLoads + 1
    /\ cfReturned' = cfReturned \cup {id}
    /\ cfLast' = [op |-> op, out |-> "return", instance |-> id,
                  before |-> cfInstance, loads |-> 1]
    /\ UNCHANGED <<file, cache, okSince, lastFailed, threadVars>>

\* ConfigManager() in one flow of control: __new__ and, on the first call,
\* _initialize. The instance is stored in _instance before _initialize runs.
ConfigManagerNew(op) ==
    /\ IF cfInstance = None
       THEN LET i == Initialized(file)
                id == Len(cfObjs) + 1 IN
            /\ cfObjs' = Append(cfObjs, i.obj)
            /\ cfInstance' = id
            /\ cfInitLoads' = cfInitLoads + 1
            /\ IF i.load.ok
               THEN /\ cfReturned' = cfReturned \cup {id}
                    /\ cfLast' = [op |-> op, out |-> "return", instance |-> id,
                                  before |-> None, loads |-> 1]
               ELSE /\ cfLast' = [op |-> op, out |-> "raise",
                                  error |-> i.load.error, msg |-> i.load.msg,
                                  before |-> None, loads |-> 1]
                    /\ UNCHANGED cfReturned
       ELSE /\ cfReturned' = cfReturned \cup {cfInstance}
            /\ cfLast' = [op |-> op, out |-> "return", instance |-> cfInstance,
                          before |-> cfInstance, loads |-> 0]
            /\ UNCHANGED <<cfInstance, cfObjs, cfInitLoads>>
    /\ UNCHANGED <<file, cache, okSince, lastFailed, threadVars>>

New == ConfigManagerNew("ConfigManager") /\ UNCHANGED <<driverVars, retryVars, pageVars>>

\* ConfigManager.get_instance(): the accessor base_test.py calls.
GetInstance == ConfigManagerNew("get_instance") /\ UNCHANGED <<driverVars, retryVars, pageVars>>

\* Getters that read the file at every call instead of the parser.
ConfigFromFile == IF file.exists THEN file.content ELSE EmptyContent

\* The parser of the singleton: self._config.
Config == cfObjs[cfInstance].config

\* A call of get_property on the singleton, its arguments among those given.
CallGetPropertyOn(keys, fallbacks) ==
    /\ cfInstance # None
    /\ \E k \in keys, fb \in fallbacks :
         cfLast' = [op |-> "get_property", section |-> k.section, key |-> k.key,
                    fallback |-> fb, sig |-> <<"get_property", k, fb>>,
                    res |-> GetProperty(Config, k.section, k.key, fb)]
    /\ UNCHANGED <<file, cfInstance, cfObjs, cfInitLoads, cfReturned, cache, okSince,
                   lastFailed, threadVars>>
    /\ UNCHANGED <<driverVars, retryVars, pageVars>>

\* A call of get_int, get_float or get_boolean on the singleton.
CallGetTypedOn(types, keys) ==
    /\ cfInstance # None
    /\ \E type \in types, k \in keys :
         \E fb \in TypedFallbacks(type) :
            cfLast' = [op |-> "get_typed", type |-> type, section |-> k.section,
                       key |-> k.key, fallback |-> fb, sig |-> <<type, k, fb>>,
                       res |-> GetTyped(type, Config, k.section, k.key, fb)]
    /\ UNCHANGED <<file, cfInstance, cfObjs, cfInitLoads, cfReturned, cache, okSince,
                   lastFailed, threadVars>>
    /\ UNCHANGED <<driverVars, retryVars, pageVars>>

CallGetProperty == CallGetPropertyOn(AskedKeys, PropertyFallbacks)

CallGetTyped == CallGetTypedOn(Types, AskedKeys)

\* The uncached reads a caller mixes with the cached accessors.
ReadBaseUrl == CallGetPropertyOn({K_BASE_URL}, {NoneValue})

ReadTimeout == CallGetTypedOn({"int"}, {K_TIMEOUT})

\* A call of a cache_config-wrapped accessor: lru_cache returns the entry, or
\* runs the wrapped function and stores what it returns.
CachedCall(acc) ==
    /\ cfInstance # None
    /\ IF cache[acc] # NoEntry
       THEN /\ cfLast' = [op |-> "accessor", acc |-> acc, sig |-> <<acc>>,
                          computed |-> FALSE, afterFailure |-> lastFailed[acc],
                          res |-> [out |-> "return", value |-> cache[acc],
                                   log |-> << >>]]
            /\ okSince' = [okSince EXCEPT ![acc] = TRUE]
            /\ lastFailed' = [lastFailed EXCEPT ![acc] = FALSE]
            /\ UNCHANGED cache
       ELSE LET r == Compute(acc, Config) IN
            /\ cache' = [cache EXCEPT ![acc] = CacheStore(cache[acc], r)]
            /\ cfLast' = [op |-> "accessor", acc |-> acc, sig |-> <<acc>>,
                          computed |-> TRUE, afterFailure |-> lastFailed[acc],
                          res |-> r]
            /\ okSince' = [okSince EXCEPT ![acc] = @ \/ r.out = "return"]
            /\ lastFailed' = [lastFailed EXCEPT ![acc] = r.out = "raise"]
    /\ UNCHANGED <<file, cfInstance, cfObjs, cfInitLoads, cfReturned, threadVars>>

CallAccessor ==
    \E acc \in Accessors : CachedCall(acc) /\ UNCHANGED <<driverVars, retryVars, pageVars>>

\* A reload_config that does not clear the caches.
ReloadConfigKeepsCache ==
    /\ cfInstance # None
    /\ LET r == LoadConfig(Config, file) IN
       /\ r.ok
       /\ cfObjs' = [cfObjs EXCEPT ![cfInstance].config = r.cfg,
                                   ![cfInstance].loaded = TRUE]
       /\ okSince' = [a \in Accessors |-> FALSE]
       /\ cfLast' = [op |-> "reload_config", out |-> "return"]
       /\ UNCHANGED cache
    /\ UNCHANGED <<file, cfInstance, cfInitLoads, cfReturned, lastFailed, threadVars>>

\* reload_config: _load_config into the parser the instance holds, then
\* cache_clear() on every accessor; a failing load leaves the caches alone.
ReloadConfig ==
    /\ cfInstance # None
    /\ LET r == LoadConfig(Config, file) IN
       /\ cfObjs' = [cfObjs EXCEPT ![cfInstance].config = r.cfg,
                                   ![cfInstance].loaded = @ \/ r.ok]
       /\ IF r.ok
          THEN /\ cache' = [a \in Accessors |-> NoEntry]
               /\ okSince' = [a \in Accessors |-> FALSE]
               /\ cfLast' = [op |-> "reload_config", out |-> "return"]
          ELSE /\ cfLast' = [op |-> "reload_config", out |-> "raise",
                             error |-> r.error, msg |-> r.msg]
               /\ UNCHANGED <<cache, okSince>>
    /\ UNCHANGED <<file, cfInstance, cfInitLoads, cfReturned, lastFailed, threadVars>>

Reload == ReloadConfig /\ UNCHANGED <<driverVars, retryVars, pageVars>>

\* ---------------------------------------------------------------------------
\* ConfigManager(): the statements of __new__ run by concurrent threads
\* ---------------------------------------------------------------------------
\* `if cls._instance is None`
TCheck(t) ==
    /\ tPc[t] = "idle"
    /\ tPc' = [tPc EXCEPT ![t] = IF cfInstance = None THEN "alloc" ELSE "return"]
    /\ UNCHANGED <<cfInstance, cfObjs, cfInitLoads, tTarget, tRet>>

\* `cls._instance = super(ConfigManager, cls).__new__(cls)`
TAlloc(t) ==
    /\ tPc[t] = "alloc"
    /\ cfObjs' = Append(cfObjs, NewObject)
    /\ cfInstance' = Len(cfObjs) + 1
    /\ tPc' = [tPc EXCEPT ![t] = "init"]
    /\ UNCHANGED <<cfInitLoads, tTarget, tRet>>

\* `cls._instance._initialize()` up to `self._config = configparser.ConfigParser()`
TInit(t) ==
    /\ tPc[t] = "init"
    /\ tTarget' = [tTarget EXCEPT ![t] = cfInstance]
    /\ cfObjs' = [cfObjs EXCEPT ![cfInstance] =
                     [hasConfig |-> TRUE, config |-> EmptyContent, loaded |-> FALSE]]
    /\ tPc' = [tPc EXCEPT ![t] = "load"]
    /\ UNCHANGED <<cfInstance, cfInitLoads, tRet>>

\* `self._load_config()`
TLoad(t) ==
    /\ tPc[t] = "load"
    /\ LET r == LoadConfig(cfObjs[tTarget[t]].config, file) IN
       /\ cfObjs' = [cfObjs EXCEPT ![tTarget[t]].config = r.cfg,
                                   ![tTarget[t]].loaded = r.ok]
       /\ tPc' = [tPc EXCEPT ![t] = IF r.ok THEN "return" ELSE "raised"]
    /\ cfInitLoads' = cfInitLoads + 1
    /\ UNCHANGED <<cfInstance, tTarget, tRet>>

\* `return cls._instance`
TReturn(t) ==
    /\ tPc[t] = "return"
    /\ tRet' = [tRet EXCEPT ![t] = [instance |-> cfInstance,
                                    loaded |-> cfObjs[cfInstance].loaded]]
    /\ tPc' = [tPc EXCEPT ![t] = "done"]
    /\ UNCHANGED <<cfInstance, cfObjs, cfInitLoads, tTarget>>

ThreadStep ==
    /\ \E t \in Threads :
          TCheck(t) \/ TAlloc(t) \/ TInit(t) \/ TLoad(t) \/ TReturn(t)
    /\ UNCHANGED <<file, cfReturned, cache, okSince, lastFailed, cfLast>>
    /\ UNCHANGED <<driverVars, retryVars, pageVars>>

\* ---------------------------------------------------------------------------
\* get_driver: its statements run by concurrent threads
\* ---------------------------------------------------------------------------
\* browser_name arguments of the racing callers
RaceBrowsers == {CHROME_BROWSER, FIREFOX_BROWSER}

InitRace ==
    /\ dPc = [t \in Threads |-> "idle"]
    /\ dTmp = [t \in Threads |-> None]
    /\ dRet = [t \in Threads |-> None]

\* `if DriverManager._driver is None`
DCheck(t) ==
    /\ dPc[t] = "idle"
    /\ dPc' = [dPc EXCEPT ![t] = IF driver = None THEN "create" ELSE "return"]
    /\ UNCHANGED <<driver, created, quitCalls, ctorCalls, dTmp, dRet>>

\* `DriverManager._create_driver(browser_name, headless)`: the value of the
\* right-hand side, not stored yet
DCreate(t) ==
    /\ dPc[t] = "create"
    /\ \E b \in RaceBrowsers, ctorOk \in BOOLEAN :
          LET c == CreateDriver(b) IN
          IF c.ok /\ ctorOk
          THEN /\ created' = Append(created, [factory |-> c.factory, headless |-> FALSE])
               /\ quitCalls' = Append(quitCalls, 0)
               /\ dTmp' = [dTmp EXCEPT ![t] = Len(created) + 1]
               /\ dPc' = [dPc EXCEPT ![t] = "store"]
          ELSE /\ dPc' = [dPc EXCEPT ![t] = "raised"]
               /\ UNCHANGED <<created, quitCalls, dTmp>>
    /\ ctorCalls' = ctorCalls + 1
    /\ UNCHANGED <<driver, dRet>>

\* `DriverManager._driver = ...`
DStore(t) ==
    /\ dPc[t] = "store"
    /\ driver' = dTmp[t]
    /\ dTmp' = [dTmp EXCEPT ![t] = None]
    /\ dPc' = [dPc EXCEPT ![t] = "return"]
    /\ UNCHANGED <<created, quitCalls, ctorCalls, dRet>>

\* `return DriverManager._driver`
DReturn(t) ==
    /\ dPc[t] = "return"
    /\ dRet' = [dRet EXCEPT ![t] = driver]
    /\ dPc' = [dPc EXCEPT ![t] = "done"]
    /\ UNCHANGED <<driver, created, quitCalls, ctorCalls, dTmp>>

DriverThreadStep ==
    /\ \E t \in Threads : DCheck(t) \/ DCreate(t) \/ DStore(t) \/ DReturn(t)
    /\ UNCHANGED <<released, quitFails, returned, lastGot, quitSince, last>>
    /\ UNCHANGED <<cfgBrowser, waitVars, queryVars>>
    /\ UNCHANGED <<retryVars, configVars>>

\* ---------------------------------------------------------------------------
\* get_browser and the driver a test is set up with
\* ---------------------------------------------------------------------------
\* [BROWSER] browser values of the loaded configuration, or no such option
BrowserOptions == BrowserNames \cup {Absent}

\* the list of get_browser's validation
GetBrowserAllowed ==
    { <<"c", "h", "r", "o", "m", "e">>, <<"f", "i", "r", "e", "f", "o", "x">>,
      <<"e", "d", "g", "e">>, <<"s", "a", "f", "a", "r", "i">> }

\* get_browser: get_property('BROWSER', 'browser', 'chrome') under validate_config
GetBrowser(stored) ==
    LET value == IF stored = Absent
                 THEN Str(StrValue(<<"c", "h", "r", "o", "m", "e">>))
                 ELSE stored IN
    IF Lower(value) \in GetBrowserAllowed
    THEN [out |-> "return", value |-> value]
    ELSE [out |-> "raise", error |-> "ValueError"]

InitSetup == cfgBrowser = Absent

\* The configuration is loaded with another browser option.
SetBrowserOption ==
    /\ \E b \in BrowserOptions : b # cfgBrowser /\ cfgBrowser' = b
    /\ UNCHANGED <<driverVars, retryVars, configVars, raceVars, waitVars, queryVars>>

\* setup_method: the browser get_browser returns is the one the driver is
\* asked for.
SetupMethod ==
    /\ LET b == GetBrowser(cfgBrowser) IN
       /\ b.out = "return"
       /\ \E hl \in BOOLEAN, ctorOk \in BOOLEAN : get_driver(b.value, hl, ctorOk)
    /\ UNCHANGED <<retryVars, configVars, pageVars>>

\* teardown_method
TeardownMethod == QuitDriver

\* ---------------------------------------------------------------------------
\* Waits: WebDriverWait(driver, timeout).until / until_not
\* ---------------------------------------------------------------------------
WaitOps == {"wait_for_element_to_be_visible", "wait_for_element_to_be_clickable",
            "wait_for_element_to_disappear"}

UntilOps == WaitOps \ {"wait_for_element_to_disappear"}

\* The poll interval is half a second.
TicksPerSecond == 2 * PollTicks

NoOutcome == [out |-> "none"]

InitWait ==
    /\ wPc = "idle"
    /\ wOp = "none"
    /\ wTimeout = 0
    /\ wNow = 0
    /\ wLeft = 0
    /\ wCond = FALSE
    /\ wSince = 0
    /\ wEvals = 0
    /\ wSeenAt = -1
    /\ wOut = NoOutcome

\* until returns at a truthy value of the condition; until_not at a falsy one,
\* or at the NoSuchElementException of an element that is not there.
Satisfied(op, cond) ==
    IF op = "wait_for_element_to_disappear" THEN ~cond ELSE cond

\* What the operation gives its caller when the wait is satisfied.
SatisfiedOutcome(op) ==
    IF op = "wait_for_element_to_disappear"
    THEN [out |-> "return", value |-> TRUE]
    ELSE [out |-> "return", element |-> "WebElement"]

\* A wait-until-gone that lets the TimeoutException through.
TimeoutOutcomeRaises(op) ==
    [out |-> "raise", error |-> "TimeoutException"]

\* What the operation gives its caller when the wait raises TimeoutException:
\* wait_for_element_to_disappear catches it and returns False.
TimeoutOutcome(op) ==
    IF op = "wait_for_element_to_disappear"
    THEN [out |-> "return", value |-> FALSE]
    ELSE [out |-> "raise", error |-> "TimeoutException"]

\* A wait that gives up at its first look at the clock.
ExpiredAlways(now, timeout) == TRUE

\* `if time.monotonic() > end_time: break`
Expired(now, timeout) == now > timeout

\* The operation is called: end_time is set and the loop is entered.
WaitStart ==
    /\ wPc \in {"idle", "returned", "timeout"}
    /\ \E op \in WaitOps, secs \in 1..MaxWaitSeconds, c \in BOOLEAN :
          /\ wOp' = op
          /\ wTimeout' = secs * TicksPerSecond
          /\ wCond' = c
    /\ wPc' = "eval"
    /\ wNow' = 0
    /\ wLeft' = 0
    /\ wSince' = 0
    /\ wEvals' = 0
    /\ wSeenAt' = -1
    /\ wOut' = NoOutcome
    /\ UNCHANGED <<driverVars, retryVars, configVars, raceVars, cfgBrowser, queryVars>>

\* `value = method(self._driver)`: one evaluation of the condition, which takes
\* up to MaxEvalTicks; then the return, or time.sleep(self._poll).
WaitEval ==
    /\ wPc = "eval"
    /\ wEvals' = wEvals + 1
    /\ IF Satisfied(wOp, wCond)
       THEN /\ wPc' = "returned"
            /\ wSeenAt' = wNow
            /\ wOut' = SatisfiedOutcome(wOp)
            /\ UNCHANGED wLeft
       ELSE /\ wPc' = "sleep"
            /\ \E d \in 0..MaxEvalTicks : wLeft' = PollTicks + d
            /\ UNCHANGED <<wSeenAt, wOut>>
    /\ UNCHANGED <<wOp, wTimeout, wNow, wCond, wSince>>
    /\ UNCHANGED <<driverVars, retryVars, configVars, raceVars, cfgBrowser, queryVars>>

\* Time passes while the wait evaluates or sleeps.
WaitTick ==
    /\ wPc = "sleep"
    /\ wLeft > 0
    /\ wNow' = wNow + 1
    /\ wLeft' = wLeft - 1
    /\ UNCHANGED <<wPc, wOp, wTimeout, wCond, wSince, wEvals, wSeenAt, wOut>>
    /\ UNCHANGED <<driverVars, retryVars, configVars, raceVars, cfgBrowser, queryVars>>

\* The look at the clock after the sleep: the next iteration, or the
\* TimeoutException.
WaitClock ==
    /\ wPc = "sleep"
    /\ wLeft = 0
    /\ IF Expired(wNow, wTimeout)
       THEN wPc' = "timeout" /\ wOut' = TimeoutOutcome(wOp)
       ELSE wPc' = "eval" /\ UNCHANGED wOut
    /\ UNCHANGED <<wOp, wTimeout, wNow, wLeft, wCond, wSince, wEvals, wSeenAt>>
    /\ UNCHANGED <<driverVars, retryVars, configVars, raceVars, cfgBrowser, queryVars>>

\* The page changes under the wait: the element appears or goes.
PageChange ==
    /\ wPc \in {"eval", "sleep"}
    /\ wCond' = ~wCond
    /\ wSince' = wNow
    /\ UNCHANGED <<wPc, wOp, wTimeout, wNow, wLeft, wEvals, wSeenAt, wOut>>
    /\ UNCHANGED <<driverVars, retryVars, configVars, raceVars, cfgBrowser, queryVars>>

\* ---------------------------------------------------------------------------
\* Page queries: handle_exceptions and the operations under it
\* ---------------------------------------------------------------------------
HELLO_SIGN_IN == <<"H", "e", "l", "l", "o", ",", " ", "s", "i", "g", "n", " ", "i", "n">>
HELLO_ANN == <<"H", "e", "l", "l", "o", ",", " ", "A", "n", "n">>
OOPS == <<"O", "o", "p", "s">>
SIGN_IN == <<"s", "i", "g", "n", " ", "i", "n">>

\* The pages explored: the greeting of the account link, and the error message
\* shown, if any.
Pages == [prompt : {HELLO_SIGN_IN, HELLO_ANN}, error : {Absent, OOPS}]

Locators == {"SIGN_IN_TEXT", "ERROR_MESSAGE", "AMAZON_LOGO"}

\* The text of the element a locator finds on a page, or Absent. SIGN_IN_TEXT
\* is //span[text()='Hello, sign in']; the logo has no text.
ElementText(page, loc) ==
    CASE loc = "SIGN_IN_TEXT" ->
            IF page.prompt = HELLO_SIGN_IN THEN page.prompt ELSE Absent
      [] loc = "ERROR_MESSAGE" -> page.error
      [] OTHER -> << >>

\* What the driver can do under one lookup: "ok" only for an element that is
\* there, or any exception.
Raws(page, loc) ==
    IF ElementText(page, loc) = Absent THEN ExcKinds ELSE {"ok"} \cup ExcKinds

\* `sub in s`
Contains(sub, s) ==
    \E i \in 1..(Len(s) - Len(sub) + 1) : SubSeq(s, i, i + Len(sub) - 1) = sub

\* The try/except of get_text and of get_attribute: the wait's
\* TimeoutException is raised again as a new TimeoutException.
ReadBody(raw, text) ==
    IF raw = "ok" THEN [out |-> "return", value |-> text]
    ELSE IF IsInstance(raw, "TimeoutException")
    THEN [out |-> "raise", error |-> "TimeoutException"]
    ELSE [out |-> "raise", error |-> raw]

\* The try/except of is_element_displayed (absence: TimeoutException) and of
\* is_element_present (absence: NoSuchElementException).
ProbeBody(raw, absence) ==
    IF raw = "ok" THEN [out |-> "return", value |-> TRUE]
    ELSE IF IsInstance(raw, absence) THEN [out |-> "return", value |-> FALSE]
    ELSE [out |-> "raise", error |-> raw]

\* A handler that catches the driver's own exceptions only.
HandleExceptionsDriverOnly(default_return, r) ==
    IF r.out = "raise" /\ IsInstance(r.error, "WebDriverException")
    THEN [out |-> "return", value |-> default_return]
    ELSE r

\* handle_exceptions(default_return): `except Exception` returns the default.
HandleExceptions(default_return, r) ==
    IF r.out = "raise" /\ IsInstance(r.error, "Exception")
    THEN [out |-> "return", value |-> default_return]
    ELSE r

\* get_text; the log_action around it returns what the handler returns.
GetText(raw, text) == HandleExceptions(<< >>, ReadBody(raw, text))

GetAttribute(raw, text) == HandleExceptions(<< >>, ReadBody(raw, text))

IsElementDisplayed(raw) == HandleExceptions(FALSE, ProbeBody(raw, "TimeoutException"))

IsElementPresent(raw) == HandleExceptions(FALSE, ProbeBody(raw, "NoSuchElementException"))

\* HomePage.is_user_signed_in
IsUserSignedIn(raw, text) ==
    LET sign_in_text == GetText(raw, text) IN
    IF sign_in_text.out = "raise" THEN sign_in_text
    ELSE [out |-> "return", value |-> ~Contains(SIGN_IN, Lower(sign_in_text.value))]

\* LoginPage.get_error_message
GetErrorMessage(raw, text) ==
    LET r == GetText(raw, text) IN
    IF r.out = "raise" /\ (IsInstance(r.error, "TimeoutException") \/
                           IsInstance(r.error, "NoSuchElementException"))
    THEN [out |-> "return", value |-> << >>]
    ELSE r

HandledOps == {"get_text", "get_attribute", "is_element_displayed", "is_element_present"}

QueryOps == HandledOps \cup {"is_user_signed_in", "get_error_message"}

\* The locators an operation is called with.
LocatorsOf(op) ==
    CASE op = "is_user_signed_in" -> {"SIGN_IN_TEXT"}
      [] op = "get_error_message" -> {"ERROR_MESSAGE"}
      [] OTHER -> Locators

QueryResult(op, raw, text) ==
    CASE op = "get_text" -> GetText(raw, text)
      [] op = "get_attribute" -> GetAttribute(raw, text)
      [] op = "is_element_displayed" -> IsElementDisplayed(raw)
      [] op = "is_element_present" -> IsElementPresent(raw)
      [] op = "is_user_signed_in" -> IsUserSignedIn(raw, text)
      [] OTHER -> GetErrorMessage(raw, text)

NoQuery == [op |-> "none"]

InitQuery ==
    /\ qPage = [prompt |-> HELLO_SIGN_IN, error |-> Absent]
    /\ qLast = NoQuery

\* The browser shows another page: the user signs in or out, an error message
\* appears or goes.
Navigate ==
    /\ \E pg \in Pages : pg # qPage /\ qPage' = pg
    /\ UNCHANGED qLast
    /\ UNCHANGED <<driverVars, retryVars, configVars, raceVars, cfgBrowser, waitVars>>

\* A query operation is called on the page.
Query ==
    /\ \E op \in QueryOps :
         \E loc \in LocatorsOf(op) :
            \E raw \in Raws(qPage, loc) :
               qLast' = [op |-> op, loc |-> loc, raw |-> raw,
                         res |-> QueryResult(op, raw, ElementText(qPage, loc))]
    /\ UNCHANGED qPage
    /\ UNCHANGED <<driverVars, retryVars, configVars, raceVars, cfgBrowser, waitVars>>

\* ---------------------------------------------------------------------------
\* Specifications
\* ---------------------------------------------------------------------------
Init == InitDriver /\ InitRetry /\ InitConfig /\ InitRace /\ InitSetup /\ InitWait
           /\ InitQuery

NextDriver == GetDriver \/ QuitDriver

NextRetry == RetryCall \/ RetryStep

\* A test's sequence of DriverManager calls.
SpecDriver == Init /\ [][NextDriver]_vars

\* A caller's sequence of calls of decorated functions.
SpecRetry == Init /\ [][NextRetry]_vars

NextConfig == New \/ GetInstance \/ FileWrite \/ CallGetProperty \/ CallGetTyped

NextConfigReload ==
    New \/ FileWrite \/ Reload \/ CallAccessor \/ ReadBaseUrl \/ ReadTimeout

NextConfigRace == ThreadStep

\* One flow of control that constructs ConfigManager and reads settings.
SpecConfig == Init /\ [][NextConfig]_vars

\* One flow of control that also reloads and uses the cached accessors.
SpecConfigReload == Init /\ [][NextConfigReload]_vars

\* Threads that construct ConfigManager with no synchronisation between them.
SpecConfigRace == Init /\ [][NextConfigRace]_vars

NextDriverRace == DriverThreadStep

\* get_driver called by concurrent threads
SpecDriverRace == Init /\ [][NextDriverRace]_vars

NextSetup == SetBrowserOption \/ SetupMethod \/ TeardownMethod

\* the driver set up from the configured browser
SpecSetup == Init /\ [][NextSetup]_vars

NextWait == WaitStart \/ WaitEval \/ WaitTick \/ WaitClock \/ PageChange

\* the explicit waits
SpecWait == Init /\ [][NextWait]_vars

NextQuery == Navigate \/ Query

\* the page queries
SpecQuery == Init /\ [][NextQuery]_vars

\* ---------------------------------------------------------------------------
\* DriverManager: properties
\* ---------------------------------------------------------------------------
Constructed == 1..Len(created)

\* Handles constructed and not yet quit.
Live == Constructed \ released

GetReturned == last'.op = "get_driver" /\ last'.out = "return"

C3_ActiveGetReturnsStored ==
    [][ (last'.op = "get_driver" /\ driver # None) =>
          /\ last'.out = "return"
          /\ last'.handle = driver
          /\ driver' = driver
          /\ created' = created
          /\ ctorCalls' = ctorCalls
          /\ released' = released ]_vars

\* A chrome session is active and get_driver("FIREFOX", headless) returned it.
C3_Witness ==
    /\ last.op = "get_driver" /\ last.out = "return"
    /\ last.before # None
    /\ last.handle = last.before
    /\ Lower(last.browser) = FIREFOX_BROWSER
    /\ created[last.handle].factory = "_create_chrome_driver"
    /\ last.headless # created[last.handle].headless

SupportedBrowsers == {CHROME_BROWSER, FIREFOX_BROWSER, EDGE_BROWSER}

EqualsIgnoreCase(a, b) == Lower(a) = Lower(b)

\* C5: while Absent, get_driver with a browser name that equals none of chrome,
\* firefox, edge ignoring case raises the ValueError naming the (lower-cased)
\* name, constructs nothing and leaves the manager Absent.
C5_UnsupportedBrowserRejected ==
    [][ (/\ last'.op = "get_driver"
         /\ driver = None
         /\ \A b \in SupportedBrowsers : ~EqualsIgnoreCase(last'.browser, b)) =>
          /\ last'.out = "raise"
          /\ last'.error = "ValueError"
          /\ last'.arg = Lower(last'.browser)
          /\ driver' = None
          /\ created' = created
          /\ ctorCalls' = ctorCalls ]_vars

C5_Witness ==
    /\ last.op = "get_driver" /\ last.out = "raise"
    /\ last.error = "ValueError"
    /\ last.browser = <<"O", "p", "e", "r", "a">>
    /\ last.arg = <<"o", "p", "e", "r", "a">>
    /\ driver = None

\* ---------------------------------------------------------------------------
\* retry_on_exception: properties
\* ---------------------------------------------------------------------------
Events(ev) == {i \in 1..Len(rTrace) : rTrace[i].ev = ev}

Calls == Events("call")

\* The exception class is matched by the wrapper's exceptions tuple.
Retryable(k) == \E cls \in rExc : IsInstance(k, cls)

RetryableFailure(i) ==
    rTrace[i].ev = "call" /\ rTrace[i].out # "ok" /\ Retryable(rTrace[i].out)

AllFailedRetryable == \A i \in Calls : RetryableFailure(i)

\* The call ended by raising a failure of a retryable kind: the budget is spent.
Exhausted == rPc = "raised" /\ Retryable(rRaised.kind)

\* C6: an operation that fails on every invocation with a retryable kind is
\* invoked exactly max_retries + 1 times and the wrapper then raises: 4
\* invocations for click_element, 3 for enter_text.
C6_ExactlyNPlusOneInvocations ==
    /\ (rPc = "running" /\ AllFailedRetryable) => Cardinality(Calls) <= rMax
    /\ (rPc = "raised" /\ AllFailedRetryable) => Cardinality(Calls) = rMax + 1
    /\ (rPc = "returned") => ~AllFailedRetryable
    /\ (rPc = "raised" /\ AllFailedRetryable /\ rFunc = "click_element")
          => Cardinality(Calls) = 4
    /\ (rPc = "raised" /\ AllFailedRetryable /\ rFunc = "enter_text")
          => Cardinality(Calls) = 3

C6_Witness ==
    /\ rFunc = "click_element"
    /\ rPc = "raised"
    /\ AllFailedRetryable
    /\ Cardinality(Calls) = 4

C8_NonRetryableNotRetried ==
    \A i \in Calls :
        (rTrace[i].out # "ok" /\
            (~Retryable(rTrace[i].out)
             \/ (rFunc \in {"click_element", "enter_text"}
                 /\ rTrace[i].out = "TimeoutException"))) =>
            /\ i = Len(rTrace)
            /\ rPc = "raised"
            /\ rRaised.kind = rTrace[i].out
            /\ rRaised.obj = i
            /\ (i = 1 => Cardinality(Calls) = 1 /\ Events("sleep") = {})

C8_Witness ==
    /\ rFunc = "click_element"
    /\ rPc = "raised"
    /\ rTrace = <<[ev |-> "call", out |-> "TimeoutException"]>>
    /\ rRaised.kind = "TimeoutException"

\* C9: every sleep comes right after the warning of a retryable failure and is
\* followed by another invocation, every retryable failure that is followed by
\* another invocation has exactly one sleep before it, and nothing sleeps after
\* the final failure: an exhausted call has slept max_retries times, and with
\* max_retries = 0 it is one invocation, the error record and the raise.
C9_OneSleepPerRetryNoneAfterLast ==
    /\ \A i \in Events("sleep") :
          /\ i >= 3
          /\ RetryableFailure(i - 2)
          /\ rTrace[i - 1].ev = "warning"
          /\ IF i = Len(rTrace) THEN rPc = "running" ELSE rTrace[i + 1].ev = "call"
    /\ \A i \in Calls :
          i > 1 => /\ i >= 4
                   /\ rTrace[i - 1].ev = "sleep"
                   /\ RetryableFailure(i - 3)
    /\ Exhausted => Cardinality(Events("sleep")) = rMax
    /\ (Exhausted /\ rMax = 0) =>
          /\ Len(rTrace) = 2
          /\ rTrace[1].ev = "call"
          /\ rTrace[2].ev = "error"

C9_Witness ==
    /\ Exhausted
    /\ rMax = 3
    /\ Cardinality(Events("sleep")) = 3
    /\ rTrace[Len(rTrace)].ev = "error"

\* C10: every retryable failure is followed by exactly one record of the
\* wrapper: a warning when another attempt follows, the error when the budget is
\* spent; the error record is the last thing an exhausted call logs, there is
\* never more than one, and a call that returns has logged no error.
C10_WarningPerRetryErrorOnExhaustion ==
    /\ \A i \in Calls :
          RetryableFailure(i) =>
              /\ i < Len(rTrace)
              /\ rTrace[i + 1].ev \in {"warning", "error"}
              /\ rTrace[i + 1].ev = "warning" <=> (i + 1 < Len(rTrace))
              /\ i + 2 <= Len(rTrace) => rTrace[i + 2].ev = "sleep"
    /\ \A i \in Events("warning") :
          /\ i > 1 /\ RetryableFailure(i - 1)
          /\ rTrace[i].n = Cardinality({j \in Calls : j < i})
    /\ \A i \in Events("error") :
          /\ i = Len(rTrace)
          /\ i > 1 /\ RetryableFailure(i - 1)
          /\ Exhausted
    /\ Cardinality(Events("error")) <= 1
    /\ Exhausted => /\ Cardinality(Events("error")) = 1
                    /\ Cardinality(Events("warning")) = rMax
    /\ rPc = "returned" => Events("error") = {}

\* A call that returned on its third invocation, after two warnings.
C10_Witness ==
    /\ rPc = "returned"
    /\ Cardinality(Events("warning")) = 2
    /\ Cardinality(Calls) = 3
    /\ Events("error") = {}

\* ---------------------------------------------------------------------------
\* ConfigManager: properties
\* ---------------------------------------------------------------------------

LoadRuns == Reload \/ (New /\ cfInstance = None)

\* C13: with no file at CONFIG_FILE_PATH the load fails with the not-found
\* error, its message naming the path; with a malformed file it fails with
\* another error; in neither case does it complete.
C13_LoadFailsNotFoundOrParse ==
    [][LoadRuns =>
         /\ ~file.exists =>
               /\ cfLast'.out = "raise"
               /\ cfLast'.error = "FileNotFoundError"
               /\ \E i \in 1..Len(cfLast'.msg) : cfLast'.msg[i] = CONFIG_FILE_PATH
         /\ (file.exists /\ file.bad # "no") =>
               /\ cfLast'.out = "raise"
               /\ cfLast'.error = "Exception"
               /\ cfLast'.error # "FileNotFoundError"
         /\ (cfLast'.out = "raise" /\ cfInstance = None) =>
               ~cfObjs'[cfInstance'].loaded
         /\ (file.exists /\ file.bad = "no") => cfLast'.out = "return"]_vars

\* the first access met a malformed file
C13_Witness ==
    /\ cfLast.op = "ConfigManager"
    /\ cfLast.out = "raise"
    /\ cfLast.error = "Exception"
    /\ file.exists /\ file.bad = "line"
    /\ ~cfObjs[1].loaded

\* The (section, key) of the last getter call, and whether the parser holds it.
AskedKey == [section |-> cfLast.section, key |-> cfLast.key]

Stored == AskedKey \in StoredKeys /\ Config[AskedKey] # Absent

\* The text a caller expects for each fallback argument.
TextOfFallback(fb) ==
    IF fb = IntValue(25) THEN <<"2", "5">> ELSE fb.v

NumericCases ==
    { <<"int", V_10, 10>>, <<"int", V_0, 0>>,
      <<"float", V_10, [whole |-> 10, decimals |-> << >>]>>,
      <<"float", V_0, [whole |-> 0, decimals |-> << >>]>>,
      <<"bool", V_0, FALSE>> }

\* C15: get_int, get_float and get_boolean return the fallback when the
\* section or the key is absent, and the parsed value when the key is present
\* and its string is numeric.
C15_TypedFallbackOrParsed ==
    cfLast.op = "get_typed" =>
       LET r == cfLast.res IN
       /\ ~Stored => r.out = "return" /\ r.value = cfLast.fallback
       /\ \A c \in NumericCases :
             (Stored /\ cfLast.type = c[1] /\ Config[AskedKey] = c[2]) =>
                r.out = "return" /\ r.value = [t |-> c[1], v |-> c[3]]

\* get_int on a stored "10" with fallback 5
C15_Witness ==
    /\ cfLast.op = "get_typed"
    /\ cfLast.type = "int"
    /\ AskedKey = K_TIMEOUT
    /\ Config[K_TIMEOUT] = V_10
    /\ cfLast.fallback = IntValue(5)
    /\ cfLast.res.out = "return"
    /\ cfLast.res.value = IntValue(10)

\* C16: the typed getters never fail: for a stored string that does not coerce
\* to the type they return the fallback.
C16_TypedGettersNeverFail ==
    cfLast.op = "get_typed" =>
       /\ cfLast.res.out = "return"
       /\ (Stored /\ ~Coerce(cfLast.type, Config[AskedKey]).ok) =>
             cfLast.res.value = cfLast.fallback

\* C17: once a call of a cached accessor has returned, later calls are served
\* without running the computation again, so consecutive calls compute once;
\* after reload_config has cleared the caches the next call computes again.
C17_ComputedOnceUntilReload ==
    [][\A a \in Accessors :
          CachedCall(a) =>
             /\ okSince[a] => ~cfLast'.computed /\ cfLast'.res.out = "return"
             /\ ~okSince[a] => cfLast'.computed]_vars

\* a call answered from the cache, with no computation
C17_Witness ==
    /\ cfLast.op = "accessor"
    /\ cfLast.acc = "get_explicit_wait_timeout"
    /\ ~cfLast.computed
    /\ cfLast.res.out = "return"
    /\ cfLast.res.value = IntValue(10)

\* C18: a cached accessor call that fails stores nothing: the next call runs
\* the computation again, and succeeds when the configuration has become
\* valid in between.
C18_FailureNotCached ==
    [][\A a \in Accessors :
          CachedCall(a) =>
             /\ lastFailed[a] => cfLast'.computed
             /\ cfLast'.res.out = "raise" => cache' = cache /\ cache'[a] = NoEntry
             /\ (lastFailed[a] /\ Compute(a, Config).out = "return") =>
                   cfLast'.res.out = "return"]_vars

\* a call that succeeded right after a failed one
C18_Witness ==
    /\ cfLast.op = "accessor"
    /\ cfLast.afterFailure
    /\ cfLast.computed
    /\ cfLast.res.out = "return"

\* C19: after a reload_config that returned, the accessors give what the file
\* held at the reload: a key removed from the file is absent, no earlier value
\* of it surviving.
C19_ReloadMatchesFile ==
    [][(Reload /\ cfLast'.out = "return") =>
          LET new == cfObjs'[cfInstance'].config IN
          /\ \A k \in StoredKeys :
                GetProperty(new, k.section, k.key, NoneValue) =
                   GetProperty(file.content, k.section, k.key, NoneValue)
          /\ \A a \in Accessors : Compute(a, new) = Compute(a, file.content)]_vars

\* A read of the loaded configuration: a cached accessor or an uncached getter.
ReadCall == CallAccessor \/ ReadBaseUrl \/ ReadTimeout

SameOutcome(r1, r2) ==
    /\ r1.out = r2.out
    /\ r1.out = "return" => r1.value = r2.value
    /\ r1.out = "raise" => r1.error = r2.error

\* C20: with no reload_config in between, calls of an accessor with the same
\* arguments give the same outcome whatever is written to the file meanwhile,
\* and no read changes what the instance has loaded.
C20_StableBetweenReloads ==
    [][ReadCall =>
          /\ cfObjs' = cfObjs
          /\ (/\ cfLast.op \in {"accessor", "get_property", "get_typed"}
              /\ cfLast.sig = cfLast'.sig) => SameOutcome(cfLast.res, cfLast'.res)]_vars

\* base_url read from the loaded configuration after the file was deleted
C20_Witness ==
    /\ cfLast.op = "get_property"
    /\ AskedKey = K_BASE_URL
    /\ cfLast.res.out = "return"
    /\ cfLast.res.value = StrValue(V_HTTP)
    /\ ~file.exists

\* ---------------------------------------------------------------------------
\* Properties across failures
\* ---------------------------------------------------------------------------

C26_FailedReloadChangesNothing ==
    /\ [](cfInstance # None =>
            \A a \in Accessors :
               cache[a] # NoEntry =>
                  LET r == Compute(a, Config) IN
                  r.out = "return" /\ r.value = cache[a])
    /\ [][(Reload /\ cfLast'.out = "raise") =>
            /\ cache' = cache
            /\ \A k \in AskedKeys, fb \in PropertyFallbacks :
                  GetProperty(cfObjs'[cfInstance'].config, k.section, k.key, fb) =
                     GetProperty(Config, k.section, k.key, fb)
            /\ \A a \in Accessors :
                  Compute(a, cfObjs'[cfInstance'].config) = Compute(a, Config)]_vars

\* C28: after a quit_driver call, returned or raised, the manager holds no
\* handle.
C28_AbsentAfterAnyQuit ==
    last.op = "quit_driver" => driver = None

\* The invocations of the current call that failed.
FailedCalls == {i \in Calls : rTrace[i].out # "ok"}

Sleeps == Events("sleep")

\* C29: when the operation fails with a retryable kind k times and then
\* succeeds, the wrapper returns from that invocation, having invoked the
\* operation k+1 times and slept k times, and does nothing after the success.
C29_SuccessAfterKFailures ==
    /\ [](rPc = "returned" =>
            LET k == Cardinality(FailedCalls) IN
            /\ k <= rMax
            /\ \A i \in FailedCalls : RetryableFailure(i)
            /\ Cardinality(Calls) = k + 1
            /\ Cardinality(Sleeps) = k
            /\ rTrace[Len(rTrace)] = [ev |-> "call", out |-> "ok"]
            /\ \A i \in Sleeps : i < Len(rTrace)
            /\ rRaised = NoExc)
    /\ [][rPc = "returned" => rPc' = "running" /\ rTrace' = << >>]_vars

\* two retryable failures, then the success
C29_Witness ==
    /\ rPc = "returned"
    /\ Cardinality(FailedCalls) = 2
    /\ Cardinality(Sleeps) = 2
    /\ Cardinality(Calls) = 3

\* ---------------------------------------------------------------------------
\* Waits and queries: properties
\* ---------------------------------------------------------------------------
\* The wait-until operation ended and what it waited for has held since `t`.
TimedOutHeldSince(t) ==
    /\ wPc = "timeout"
    /\ wOp \in UntilOps
    /\ wCond
    /\ wSince = t

\* C21 as stated: a wait-until whose condition becomes true at an elapsed time
\* t < T, and stays true, does not end in Timeout.
C21_Original ==
    \A t \in 0..(MaxWaitSeconds * TicksPerSecond) :
       t < wTimeout => ~TimedOutHeldSince(t)

\* C21: a wait-until returns from the evaluation that first finds its condition
\* true and evaluates no more; that is certain when the condition holds from a
\* time t with t + poll interval + evaluation time <= T, while a condition
\* that turns true later than that can be missed. A wait that never finds the
\* condition true raises Timeout, and only once more than T has elapsed.
C21_ReturnsWhenSeenTimeoutAfterT ==
    /\ [](wOp \in UntilOps =>
            /\ wPc = "returned" =>
                  /\ wOut = [out |-> "return", element |-> "WebElement"]
                  /\ wSeenAt = wNow
                  /\ wCond /\ wSince <= wSeenAt
            /\ wPc = "timeout" =>
                  /\ wOut = [out |-> "raise", error |-> "TimeoutException"]
                  /\ wNow > wTimeout
                  /\ wSeenAt = -1
            /\ \A t \in 0..(MaxWaitSeconds * TicksPerSecond) :
                  t + PollTicks + MaxEvalTicks <= wTimeout => ~TimedOutHeldSince(t))
    /\ [][(wOp \in UntilOps /\ wPc = "returned") =>
            (wEvals' = wEvals \/ (wPc' = "eval" /\ wEvals' = 0))]_vars

\* the element appeared while the wait slept and the next evaluation found it
C21_Witness ==
    /\ wPc = "returned"
    /\ wOp = "wait_for_element_to_be_visible"
    /\ wSince > 0
    /\ wSince < wSeenAt
    /\ wEvals >= 2

\* C22 as stated: a wait-until-gone whose element is still there after the
\* timeout fails with Timeout.
C22_Original ==
    (wOp = "wait_for_element_to_disappear" /\ wPc = "timeout") =>
       wOut = [out |-> "raise", error |-> "TimeoutException"]

\* C22: wait_for_element_to_disappear returns True from the evaluation that
\* first finds the element absent; when the element is still found after the
\* timeout it returns False, and raises nothing.
C22_GoneTrueElseFalse ==
    /\ [](wOp = "wait_for_element_to_disappear" =>
            /\ wPc = "returned" =>
                  /\ wOut = [out |-> "return", value |-> TRUE]
                  /\ wSeenAt = wNow
                  /\ ~wCond
            /\ wPc = "timeout" =>
                  /\ wOut = [out |-> "return", value |-> FALSE]
                  /\ wNow > wTimeout
                  /\ wSeenAt = -1)
    /\ [][(wOp = "wait_for_element_to_disappear" /\ wPc = "returned") =>
            (wEvals' = wEvals \/ (wPc' = "eval" /\ wEvals' = 0))]_vars

\* the element never went: False after the timeout
C22_Witness ==
    /\ wOp = "wait_for_element_to_disappear"
    /\ wPc = "timeout"
    /\ wCond /\ wSince = 0
    /\ wOut = [out |-> "return", value |-> FALSE]

\* C23: is_user_signed_in returns True only when the prompt text was read and
\* does not contain "sign in"; on a signed-out session, and whenever the read
\* fails, it returns False.
C23_SignedInOnlyWhenRead ==
    qLast.op = "is_user_signed_in" =>
       /\ qLast.res.out = "return"
       /\ qLast.res.value = TRUE =>
             /\ qLast.raw = "ok"
             /\ ~Contains(SIGN_IN, Lower(ElementText(qPage, qLast.loc)))
       /\ qLast.raw # "ok" => qLast.res.value = FALSE
       /\ qPage.prompt = HELLO_SIGN_IN => qLast.res.value = FALSE

\* C24: when threads race on get_driver with no handle stored, one handle is
\* constructed, every caller receives it, and no constructed handle is left
\* out of the manager.
C24_OneHandleUnderRace ==
    /\ Len(created) <= 1
    /\ \A t, u \in Threads :
          (dPc[t] = "done" /\ dPc[u] = "done") => dRet[t] = dRet[u]
    /\ (\A t \in Threads : dPc[t] \in {"done", "raised"}) =>
          \A h \in 1..Len(created) : h = driver

\* C27: every browser name get_browser returns is accepted by get_driver with
\* no handle stored.
C27_ConfiguredBrowserAccepted ==
    (/\ last.op = "get_driver"
     /\ last.before = None
     /\ Lower(last.browser) \in GetBrowserAllowed) =>
        ~(last.out = "raise" /\ last.error = "ValueError")

\* What each handled operation gives for an element that is not there or has
\* no text.
GenuineEmpty(op) ==
    CASE op = "get_text" -> GetText("ok", << >>)
      [] op = "get_attribute" -> GetAttribute("ok", << >>)
      [] op = "is_element_displayed" -> IsElementDisplayed("TimeoutException")
      [] OTHER -> IsElementPresent("NoSuchElementException")

\* C30: the operations under handle_exceptions never raise: for every failure
\* of the driver is_element_displayed and is_element_present return False,
\* get_text and get_attribute return "", which is what they return for an
\* absent element or an empty text; get_error_message returns "" as well.
C30_QueriesNeverRaise ==
    /\ qLast.op \in HandledOps =>
          /\ qLast.res.out = "return"
          /\ qLast.raw # "ok" =>
                /\ qLast.res.value =
                      (IF qLast.op \in {"get_text", "get_attribute"} THEN << >> ELSE FALSE)
                /\ qLast.res = GenuineEmpty(qLast.op)
    /\ qLast.op = "get_error_message" =>
          /\ qLast.res.out = "return"
          /\ qLast.raw # "ok" => qLast.res.value = << >>

\* an exception that is not the driver's, under get_attribute
C30_Witness ==
    /\ qLast.op = "get_attribute"
    /\ qLast.raw = "Exception"
    /\ qLast.res = [out |-> "return", value |-> << >>]

====
